---- MODULE Spec2Model ----
(***************************************************************************)
(* Model of utils/anvio_utils/anvi-load-sqm.py (SqueezeMeta): the linear   *)
(* pipeline of main() and the taxonomy loader load_taxonomy().             *)
(*                                                                         *)
(* Strings that the code cuts or joins are sequences of tokens: a name is  *)
(* a sequence in which the token "_split_" is the marker, a line of a      *)
(* tab-separated file is the sequence of its fields, and a taxonomy label  *)
(* (the rest of a line after its first tab) is the sequence of its fields. *)
(***************************************************************************)
EXTENDS Integers, Sequences, FiniteSets, Bags, TLC

VARIABLES
    tax_contigs,        \* the *_anvio_contig_taxonomy.txt file: a sequence of lines
    tax_genes,          \* the *_anvio_taxonomy.txt file: a sequence of lines
    splits_basic_info,  \* the split column of table splits_basic_info
    db,                 \* db[o]: the committed tables of <output o>/CONTIGS.db
    tx,                 \* rows inserted through the open connection, not committed
    split_tax,          \* load_taxonomy's local dict {split: label}
    gen_tax,            \* load_taxonomy's local dict {gene: label}
    taxa_order,         \* the order in which enumerate(taxa) yields the set taxa
    outcome,            \* outcome[o]: how load_taxonomy(o, ...) ended
    run,                \* the output whose load_taxonomy is running
    args,               \* the parsed command line, as far as it steers the control flow
    version,            \* float(anvio.__version__)
    log,                \* what the process did so far: checks, commands, file operations
    samples,            \* create_profileDB's list of '-RAW.bam' files
    done,               \* how many of the samples the profiling loop has finished
    profile_name,       \* create_profileDB's local profile_name
    exitcode,           \* <<>> while the process runs, then <<its exit code>>
    diag,               \* the last diagnostic the process printed
    pc                  \* position of the control flow

taxvars == <<tax_contigs, tax_genes, splits_basic_info, db, tx, split_tax,
             gen_tax, taxa_order, outcome, run>>
pipevars == <<args, version, log, samples, done, profile_name>>
vars == <<taxvars, pipevars, exitcode, diag, pc>>

(***************************************************************************)
(* Bounds and the finite input universe.                                   *)
(***************************************************************************)
MaxLines == 2       \* data lines per taxonomy file
MaxSamples == 2     \* '-RAW.bam' files in the bam directory

Outputs == {1, 2}   \* two target databases, for the two runs of the round trip

Marker == "_split_"
Header == <<"# id", "superkingdom", "phylum", "class", "order", "family", "genus", "species">>

L1 == <<"Bacteria", "X", "Y", "Z", "W", "V", "U">>
L2 == <<"Bacteria", "P", "Q", "R", "S", "T", "M">>
L3 == <<"Archaea", "X", "Y", "Z", "W", "V", "U">>   \* L1 under another superkingdom
L5 == <<"Bacteria", "X", "Y", "Z", "W", "V">>       \* five ranks after the superkingdom

\* the last line of each set has no tab
ContigLines == { <<"C1">> \o L1, <<"C1">> \o L5, <<"C2">> \o L2, <<"C2">> }
GeneLines   == { <<"g1">> \o L1, <<"g1">> \o L2, <<"g2">> \o L3, <<"g2">> }

C1s1  == <<"C1", Marker, "00001">>
C2s1  == <<"C2", Marker, "00001">>
C1bs1 == <<"C1", Marker, "b", Marker, "00001">>     \* a split of contig C1_split_b
SplitNames == {C1s1, C2s1, C1bs1}

SeqsUpTo(S, n) == UNION { [1..k -> S] : k \in 0..n }

Files(lines) == { <<Header>> \o body : body \in SeqsUpTo(lines, MaxLines) }

(***************************************************************************)
(* Pure helpers of load_taxonomy.                                          *)
(***************************************************************************)
Range(f) == { f[x] : x \in DOMAIN f }

\* s.split('_split_')[0]: the tokens before the first marker
ParentOf(s) ==
    IF \E i \in DOMAIN s : s[i] = Marker
    THEN SubSeq(s, 1, (CHOOSE i \in DOMAIN s :
                          /\ s[i] = Marker
                          /\ \A j \in 1..(i-1) : s[j] # Marker) - 1)
    ELSE s

\* infile.readline(): the lines left after the header line is burnt
DataLines(file) == IF file = <<>> THEN <<>> ELSE Tail(file)

\* line.rstrip('\n').split('\t', 1): [first field, rest] or [first field]
SplitOnce(line) == IF Len(line) >= 2 THEN <<<<line[1]>>, Tail(line)>> ELSE <<<<line[1]>>>>

\* dict() raises ValueError on an element that is not a pair
DictFails(file) == \E i \in DOMAIN DataLines(file) : Len(SplitOnce(DataLines(file)[i])) # 2

\* dict([...]): a later pair with the same key replaces the earlier one
DictOf(file) ==
    LET lines == DataLines(file)
        keys  == { SplitOnce(lines[i])[1] : i \in DOMAIN lines }
        last(k) == CHOOSE i \in DOMAIN lines :
                      /\ SplitOnce(lines[i])[1] = k
                      /\ \A j \in DOMAIN lines : SplitOnce(lines[j])[1] = k => j <= i
    IN  [k \in keys |-> SplitOnce(lines[last(k)])[2]]

\* {s: contig_tax[s.split('_split_')[0]] for s in splits}
SplitTaxFails(splits, contig_tax) == \E s \in splits : ParentOf(s) \notin DOMAIN contig_tax
SplitTax(splits, contig_tax) == [s \in splits |-> contig_tax[ParentOf(s)]]

\* set(list(split_tax.values()) + list(gen_tax.values()))
Taxa(st, gt) == Range(st) \cup Range(gt)

\* the orders in which a set can be enumerated
Orders(S) == { q \in [1..Cardinality(S) -> S] : Range(q) = S }

\* a numbering that does not count: every taxon gets the id 1
TaxonIdsConst(order) == [t \in Range(order) |-> 1]
\* {taxon: i+1 for i, taxon in enumerate(taxa)}
TaxonIds(order) == [t \in Range(order) |-> CHOOSE i \in DOMAIN order : order[i] = t]

NumPlaceholders == 7    \* the '?' of the INSERT INTO taxon_names statement

\* slices that are off by one: all fields but the last, and all fields
RankColumnsHead(t) == SubSeq(t, 1, Len(t) - 1)
RankColumnsAll(t) == t
\* t.split('\t')[1:len(t)]: the fields after the superkingdom
RankColumns(t) == Tail(t)

\* values = [taxon_names[t]] + tax_list; sqlite3 refuses a wrong number of bindings
BindFails(t) == 1 + Len(RankColumns(t)) # NumPlaceholders

\* the ids of a second enumeration of the same set, in another (fixed) order
TaxonRowReenumerated(t, ids) ==
    [taxon_id |-> TaxonIds(CHOOSE q \in Orders(DOMAIN ids) : TRUE)[t], ranks |-> RankColumns(t)]
\* one row of each INSERT statement
TaxonRow(t, ids) == [taxon_id |-> ids[t], ranks |-> RankColumns(t)]
SplitRow(s, st, ids) == [split |-> s, taxon_id |-> ids[st[s]]]
GeneRow(g, gt, ids) == [gene_callers_id |-> g, taxon_id |-> ids[gt[g]]]

NoRows == [taxon_names |-> EmptyBag, splits_taxonomy |-> EmptyBag, genes_taxonomy |-> EmptyBag]

AddRows(bag, rows) == bag (+) [r \in rows |-> 1]

(***************************************************************************)
(* The sqlite3 connection: INSERTs open a transaction, conn.commit() makes *)
(* its rows durable, and a connection that dies uncommitted rolls back.    *)
(***************************************************************************)
\* a connection in autocommit mode: the rows are durable at once
ExecuteInsertAutocommit(d, t, table, rows) ==
    [db |-> [d EXCEPT ![table] = AddRows(d[table], rows)], tx |-> t]
\* c.execute(INSERT ...): the rows join the open transaction
ExecuteInsert(d, t, table, rows) ==
    [db |-> d, tx |-> [t EXCEPT ![table] = AddRows(t[table], rows)]]

\* conn.commit()
CommitRows(d, t) ==
    [table \in DOMAIN d |-> d[table] (+) t[table]]

\* an uncaught exception: the traceback is printed and the process ends
Raise(exc) ==
    /\ diag' = exc
    /\ exitcode' = <<1>>
    /\ pc' = "exited"

\* an exception raised inside load_taxonomy
RaiseInLoad(exc) ==
    /\ outcome' = [outcome EXCEPT ![run] = exc]
    /\ Raise(exc)

(***************************************************************************)
(* load_taxonomy(output, tax_contigs, tax_genes)                           *)
(***************************************************************************)
\* connect, SELECT the splits, build the dicts and the taxon ids
LoadTaxonomyRead ==
    /\ pc = "load_taxonomy"
    /\ tx' = NoRows
    /\ UNCHANGED <<tax_contigs, tax_genes, splits_basic_info, db, run, pipevars>>
    /\ IF DictFails(tax_contigs)
       THEN RaiseInLoad("ValueError") /\ UNCHANGED <<split_tax, gen_tax, taxa_order>>
       ELSE IF SplitTaxFails(splits_basic_info, DictOf(tax_contigs))
       THEN RaiseInLoad("KeyError") /\ UNCHANGED <<split_tax, gen_tax, taxa_order>>
       ELSE IF DictFails(tax_genes)
       THEN RaiseInLoad("ValueError") /\ UNCHANGED <<split_tax, gen_tax, taxa_order>>
       ELSE /\ split_tax' = SplitTax(splits_basic_info, DictOf(tax_contigs))
            /\ gen_tax' = DictOf(tax_genes)
            /\ taxa_order' \in Orders(Taxa(split_tax', gen_tax'))
            /\ pc' = "insert_taxon_names"
            /\ UNCHANGED <<outcome, exitcode, diag>>

\* for t in taxon_names.keys(): INSERT INTO taxon_names
InsertTaxonNames ==
    /\ pc = "insert_taxon_names"
    /\ UNCHANGED <<tax_contigs, tax_genes, splits_basic_info, split_tax, gen_tax,
                   taxa_order, run, pipevars>>
    /\ LET ids  == TaxonIds(taxa_order)
           bad  == { i \in DOMAIN taxa_order : BindFails(taxa_order[i]) }
           stop == IF bad = {} THEN Len(taxa_order) + 1
                   ELSE CHOOSE i \in bad : \A j \in bad : i <= j
           rows == { TaxonRow(taxa_order[i], ids) : i \in 1..(stop - 1) }
           new  == ExecuteInsert(db[run], tx, "taxon_names", rows)
       IN  /\ db' = [db EXCEPT ![run] = new.db]
           /\ tx' = new.tx
           /\ IF bad = {}
              THEN pc' = "insert_splits_taxonomy" /\ UNCHANGED <<outcome, exitcode, diag>>
              ELSE RaiseInLoad("ProgrammingError")

\* for s in split_tax: INSERT INTO splits_taxonomy
InsertSplitsTaxonomy ==
    /\ pc = "insert_splits_taxonomy"
    /\ UNCHANGED <<tax_contigs, tax_genes, splits_basic_info, split_tax, gen_tax,
                   taxa_order, run, outcome, pipevars, exitcode, diag>>
    /\ LET ids  == TaxonIds(taxa_order)
           rows == { SplitRow(s, split_tax, ids) : s \in DOMAIN split_tax }
           new  == ExecuteInsert(db[run], tx, "splits_taxonomy", rows)
       IN  /\ db' = [db EXCEPT ![run] = new.db]
           /\ tx' = new.tx
    /\ pc' = "insert_genes_taxonomy"

\* for gen in gen_tax: INSERT INTO genes_taxonomy
InsertGenesTaxonomy ==
    /\ pc = "insert_genes_taxonomy"
    /\ UNCHANGED <<tax_contigs, tax_genes, splits_basic_info, split_tax, gen_tax,
                   taxa_order, run, outcome, pipevars, exitcode, diag>>
    /\ LET ids  == TaxonIds(taxa_order)
           rows == { GeneRow(g, gen_tax, ids) : g \in DOMAIN gen_tax }
           new  == ExecuteInsert(db[run], tx, "genes_taxonomy", rows)
       IN  /\ db' = [db EXCEPT ![run] = new.db]
           /\ tx' = new.tx
    /\ pc' = "commit"

\* conn.commit(), and load_taxonomy returns
Commit ==
    /\ pc = "commit"
    /\ db' = [db EXCEPT ![run] = CommitRows(db[run], tx)]
    /\ tx' = NoRows
    /\ outcome' = [outcome EXCEPT ![run] = "ok"]
    /\ pc' = "taxonomy_loaded"
    /\ UNCHANGED <<tax_contigs, tax_genes, splits_basic_info, split_tax, gen_tax,
                   taxa_order, run, pipevars, exitcode, diag>>

\* the loader is run again, on the same two files and a fresh target database
Rerun ==
    /\ pc \in {"taxonomy_loaded", "exited"}
    /\ run = 1
    /\ run' = 2
    /\ pc' = "load_taxonomy"
    /\ exitcode' = <<>>
    /\ diag' = ""
    /\ UNCHANGED <<tax_contigs, tax_genes, splits_basic_info, db, tx, split_tax,
                   gen_tax, taxa_order, outcome, pipevars>>

InitTax ==
    /\ tax_contigs \in Files(ContigLines)
    /\ tax_genes \in Files(GeneLines)
    /\ splits_basic_info \in SUBSET SplitNames
    /\ db = [o \in Outputs |-> NoRows]
    /\ tx = NoRows
    /\ split_tax = <<>>
    /\ gen_tax = <<>>
    /\ taxa_order = <<>>
    /\ outcome = [o \in Outputs |-> "none"]
    /\ run = 1
    /\ args = [output_dot |-> FALSE, same_dir |-> FALSE, run_HMMS |-> FALSE,
               run_scg_taxonomy |-> FALSE, skip_SNV_profiling |-> FALSE,
               profile_SCVs |-> FALSE]
    /\ version = 6
    /\ log = <<>>
    /\ samples = <<>>
    /\ done = 0
    /\ profile_name = <<>>
    /\ exitcode = <<>>
    /\ diag = ""
    /\ pc = "load_taxonomy"

NextTax ==
    \/ LoadTaxonomyRead
    \/ InsertTaxonNames
    \/ InsertSplitsTaxonomy
    \/ InsertGenesTaxonomy
    \/ Commit

\* one run of load_taxonomy on every input of the universe
SpecTax == InitTax /\ [][NextTax]_vars

NextRoundTrip ==
    \/ NextTax
    \/ Rerun

\* two runs of it on the same input
SpecRoundTrip == InitTax /\ [][NextRoundTrip]_vars

(***************************************************************************)
(* Command lines.  An argument is <<"str", piece, ...>>, the pieces of a   *)
(* formatted string, or <<"int", name>>, a number taken from the parsed    *)
(* command line.                                                           *)
(***************************************************************************)
Str(pieces) == <<"str">> \o pieces
Num(name) == <<"int", name>>
Flag(f) == Str(<<f>>)

Output == "{output}"
Project == "{project}"
ContigsDb == Str(<<Output, "/CONTIGS.db">>)                 \* '{}/CONTIGS.db'.format(output)
Sqm2anvioDir == Str(<<Project, "/results/sqm2anvio">>)      \* '{}/results/sqm2anvio'.format(project)
TempDir == Str(<<Output, "/temp">>)                         \* '{}/temp'.format(output)

\* the file names of the bam directory that end in '-RAW.bam'
SampleFiles == { <<ToString(n), "-RAW.bam">> : n \in 1..MaxSamples }
\* a file of the bam directory that does not
OtherFile == <<"README">>

\* f_in = project + '/results/sqm2anvio/bam/' + f
BamIn(f) == <<Project, "/results/sqm2anvio/bam/">> \o f
\* str.replace('-RAW', '')
ReplaceRaw(p) == [k \in DOMAIN p |-> IF p[k] = "-RAW.bam" THEN ".bam" ELSE p[k]]
\* str.replace('-RAW.bam', '')
ReplaceRawBam(p) == SelectSeq(p, LAMBDA piece : piece # "-RAW.bam")
\* '{}/{}_temp'.format(output, f.replace('-RAW.bam', ''))
ProfileName(f) == <<Output, "/">> \o ReplaceRawBam(f) \o <<"_temp">>
\* '{}/PROFILE.db'.format(profile)
ProfileDb(profile) == Str(profile \o <<"/PROFILE.db">>)

Ev(kind, name, argv, res) == [kind |-> kind, name |-> name, argv |-> argv, res |-> res]

\* ' '.join(command) raises TypeError on an item that is not a str
JoinFails(argv) == \E k \in DOMAIN argv : argv[k][1] # "str"

MsgCommand == "There must be some problem with the command"

\* a run_command that does not look at the exit code
RunCommandUnchecked(before, name, argv, ok, next) ==
    /\ log' = log \o before \o <<Ev("run_command", name, argv, IF ok THEN "0" ELSE "nonzero")>>
    /\ pc' = next
    /\ UNCHANGED <<exitcode, diag>>

\* run_command(command): subprocess.call, then the check of the exit code
\* (before: what the caller did since the last step)
RunCommandAfter(before, name, argv, ok, next) ==
    /\ log' = log \o before \o <<Ev("run_command", name, argv, IF ok THEN "0" ELSE "nonzero")>>
    /\ IF ok
       THEN pc' = next /\ UNCHANGED <<exitcode, diag>>
       ELSE IF JoinFails(argv)
       THEN Raise("TypeError")
       ELSE /\ diag' = MsgCommand
            /\ exitcode' = <<-1>>
            /\ pc' = "exited"

RunCommand(name, argv, ok, next) == RunCommandAfter(<<>>, name, argv, ok, next)

\* exit(-1) after a message
ExitWith(msg) ==
    /\ diag' = msg
    /\ exitcode' = <<-1>>
    /\ pc' = "exited"

(***************************************************************************)
(* main(): the output directory                                            *)
(***************************************************************************)
MsgPrevious == "There is a previous output"

CreateOutputDir ==
    /\ pc = "start"
    /\ UNCHANGED <<taxvars, args, version, samples, done, profile_name>>
    /\ IF args.output_dot
       THEN /\ pc' = "find_inputs"
            /\ UNCHANGED <<log, exitcode, diag>>
       ELSE \E exists \in BOOLEAN :
              IF exists
              THEN /\ log' = Append(log, Ev("check", "os.path.exists", <<Str(<<Output>>)>>, "yes"))
                   /\ ExitWith(MsgPrevious)
              ELSE \E ok \in BOOLEAN :
                     /\ log' = log \o
                           << Ev("check", "os.path.exists", <<Str(<<Output>>)>>, "no"),
                              Ev("subprocess.call", "mkdir", <<Flag("mkdir"), Str(<<Output>>)>>,
                                 IF ok THEN "0" ELSE "nonzero") >>
                     /\ pc' = "find_inputs"
                     /\ UNCHANGED <<exitcode, diag>>

(***************************************************************************)
(* main(): the input files, and check_sqm2anvio(project)                   *)
(***************************************************************************)
Sqm2anvioDirExists ==
    /\ pc = "find_inputs"
    /\ \E exists \in BOOLEAN :
          /\ log' = Append(log, Ev("check", "os.path.isdir", <<Sqm2anvioDir>>,
                                   IF exists THEN "yes" ELSE "no"))
          /\ pc' = IF exists THEN "check_sqm2anvio" ELSE "run_sqm2anvio"
    /\ UNCHANGED <<taxvars, args, version, samples, done, profile_name, exitcode, diag>>

RunSqm2anvio ==
    /\ pc = "run_sqm2anvio"
    /\ \E ok \in BOOLEAN :
          RunCommand("sqm2anvio.pl",
                     <<Str(<<"{utils_home}", "/sqm2anvio.pl">>), Str(<<Project>>), Sqm2anvioDir>>,
                     ok, "check_sqm2anvio")
    /\ UNCHANGED <<taxvars, args, version, samples, done, profile_name>>

Suffixes == <<"_anvio_contigs", "_anvio_genes", "_anvio_functions", "_anvio_taxonomy",
              "_anvio_contig_taxonomy">>
GlobResults == {"none", "one", "many", "notfile"}

MsgMissing == "The file seems not to exist"
MsgSeveral == "There seems to be more than one file"
MsgNoBam == "There is not a bam directory"

\* a check that lets an empty glob pass
GlobVerdictLenient(res) ==
    CASE res = "many" -> "exit"
      [] res = "notfile" -> "NameError"
      [] OTHER -> "append"
\* the branch check_sqm2anvio takes on what glob returned for one suffix
GlobVerdict(res) ==
    CASE res = "none" -> "exit"
      [] res = "many" -> "exit"
      [] res = "notfile" -> "NameError"      \* the message names globlist, not globList
      [] OTHER -> "append"

\* the taxonomy files that sqm2anvio.pl may have written
PipeFiles ==
    { << <<Header, <<"C1">> \o L1>>, <<Header, <<"g1">> \o L1>> >>,
      << <<Header, <<"C1">> \o L5>>, <<Header, <<"g1">> \o L1>> >> }

\* what the loop over the five suffixes can see: it goes on after a file that
\* it appends and returns (or dies) at the first one that it does not
Observations ==
    { q \in UNION { [1..k -> GlobResults] : k \in 1..Len(Suffixes) } :
        /\ \A k \in 1..(Len(q) - 1) : GlobVerdict(q[k]) = "append"
        /\ Len(q) = Len(Suffixes) \/ GlobVerdict(q[Len(q)]) # "append" }

CheckSqm2anvio ==
    /\ pc = "check_sqm2anvio"
    /\ UNCHANGED <<splits_basic_info, db, tx, split_tax, gen_tax, taxa_order, outcome, run,
                   args, version, samples, done, profile_name>>
    /\ \E found \in Observations :
          LET last  == found[Len(found)]
              globs == [k \in DOMAIN found |->
                           Ev("check", "glob", <<Str(<<Suffixes[k], ".txt">>)>>, found[k])]
          IN  IF GlobVerdict(last) # "append"
              THEN /\ log' = log \o globs
                   /\ UNCHANGED <<tax_contigs, tax_genes>>
                   /\ IF GlobVerdict(last) = "NameError"
                      THEN Raise("NameError")
                      ELSE ExitWith(IF last = "none" THEN MsgMissing ELSE MsgSeveral)
              ELSE \E bam \in BOOLEAN :
                   /\ log' = log \o globs \o
                          <<Ev("check", "os.path.isdir", <<Str(<<"bam">>)>>,
                               IF bam THEN "yes" ELSE "no")>>
                   /\ IF bam
                      THEN /\ \E files \in PipeFiles :
                                 tax_contigs' = files[1] /\ tax_genes' = files[2]
                           /\ pc' = "copy"
                           /\ UNCHANGED <<exitcode, diag>>
                      ELSE /\ ExitWith(MsgNoBam)
                           /\ UNCHANGED <<tax_contigs, tax_genes>>

\* cp tax_contigs output, unless the results go to the input folder
CopyTaxContigs ==
    /\ pc = "copy"
    /\ UNCHANGED <<taxvars, args, version, samples, done, profile_name>>
    /\ IF args.same_dir
       THEN pc' = "gen_contigs_database" /\ UNCHANGED <<log, exitcode, diag>>
       ELSE \E ok \in BOOLEAN :
              RunCommand("cp", <<Flag("cp"), Str(<<"{tax_contigs}">>), Str(<<Output>>)>>,
                         ok, "gen_contigs_database")

(***************************************************************************)
(* create_contigsDB(...)                                                   *)
(***************************************************************************)
\* the split tables that anvi-gen-contigs-database may leave in CONTIGS.db
PipeSplits == { {C1s1}, {C1s1, C2s1} }

GenContigsDatabase ==
    /\ pc = "gen_contigs_database"
    /\ \E ok \in BOOLEAN :
          /\ RunCommand("anvi-gen-contigs-database",
                        <<Flag("anvi-gen-contigs-database"), Flag("-f"), Str(<<"{contigs}">>),
                          Flag("-n"), Str(<<Project>>), Flag("-o"), ContigsDb,
                          Flag("--external-gene-call"), Str(<<"{genes}">>),
                          Flag("--ignore-internal-stop-codons")>>,
                        ok, "run_hmms")
          /\ IF ok
             THEN splits_basic_info' \in PipeSplits
             ELSE UNCHANGED splits_basic_info
    /\ UNCHANGED <<tax_contigs, tax_genes, db, tx, split_tax, gen_tax, taxa_order, outcome, run,
                   args, version, samples, done, profile_name>>

HmmsArgv == <<Flag("anvi-run-hmms"), Flag("-c"), ContigsDb, Flag("--num-threads"),
              Num("num_threads")>>

\* if run_HMMS: anvi-run-hmms
RunHmms ==
    /\ pc = "run_hmms"
    /\ UNCHANGED <<taxvars, args, version, samples, done, profile_name>>
    /\ IF args.run_HMMS
       THEN \E ok \in BOOLEAN : RunCommand("anvi-run-hmms", HmmsArgv, ok, "scg_hmms")
       ELSE pc' = "scg_hmms" /\ UNCHANGED <<log, exitcode, diag>>

\* if run_scg_taxonomy and version >= 6: the HMMs it needs, unless they were run
ScgHmms ==
    /\ pc = "scg_hmms"
    /\ UNCHANGED <<taxvars, args, version, samples, done, profile_name>>
    /\ IF args.run_scg_taxonomy /\ version >= 6
       THEN IF ~args.run_HMMS
            THEN \E ok \in BOOLEAN : RunCommand("anvi-run-hmms", HmmsArgv, ok, "scg_taxonomy")
            ELSE pc' = "scg_taxonomy" /\ UNCHANGED <<log, exitcode, diag>>
       ELSE pc' = "import_functions" /\ UNCHANGED <<log, exitcode, diag>>

\* anvi-run-scg-taxonomy
ScgTaxonomy ==
    /\ pc = "scg_taxonomy"
    /\ \E ok \in BOOLEAN :
          RunCommand("anvi-run-scg-taxonomy",
                     <<Flag("anvi-run-scg-taxonomy"), Flag("-c"), ContigsDb,
                       Flag("--num-parallel-processes"), Flag("3"), Flag("--num-threads"),
                       Num("num_threads")>>,
                     ok, "import_functions")
    /\ UNCHANGED <<taxvars, args, version, samples, done, profile_name>>

\* anvi-import-functions, and then load_taxonomy on this output
ImportFunctions ==
    /\ pc = "import_functions"
    /\ \E ok \in BOOLEAN :
          RunCommand("anvi-import-functions",
                     <<Flag("anvi-import-functions"), Flag("-c"), ContigsDb, Flag("-i"),
                       Str(<<"{functions}">>)>>,
                     ok, "load_taxonomy")
    /\ UNCHANGED <<taxvars, args, version, samples, done, profile_name>>

(***************************************************************************)
(* create_profileDB(...)                                                   *)
(***************************************************************************)
\* the orders in which os.listdir can give a set of file names
Listings == UNION { Orders(S) : S \in SUBSET (SampleFiles \cup {OtherFile}) }

\* [f for f in os.listdir(...) if f.endswith('-RAW.bam')]
RawBams(listing) == SelectSeq(listing, LAMBDA f : f[Len(f)] = "-RAW.bam")

ListSamples ==
    /\ pc = "taxonomy_loaded"
    /\ \E listing \in Listings : samples' = RawBams(listing)
    /\ done' = 0
    /\ pc' = IF samples' = <<>> THEN "merge" ELSE "init_bam"
    /\ UNCHANGED <<taxvars, args, version, log, profile_name, exitcode, diag>>

\* anvi-init-bam f_in -o f_out
InitBam ==
    /\ pc = "init_bam"
    /\ LET f_in  == BamIn(samples[done + 1])
           f_out == ReplaceRaw(f_in)
       IN  \E ok \in BOOLEAN :
              RunCommand("anvi-init-bam",
                         <<Flag("anvi-init-bam"), Str(f_in), Flag("-o"), Str(f_out)>>,
                         ok, "profile")
    /\ UNCHANGED <<taxvars, args, version, samples, done, profile_name>>

\* anvi-profile -i f_out -o profile_name, with the flags that were asked for
Profile ==
    /\ pc = "profile"
    /\ LET f     == samples[done + 1]
           f_out == ReplaceRaw(BamIn(f))
       IN  /\ profile_name' = ProfileName(f)
           /\ \E ok \in BOOLEAN :
                 RunCommand("anvi-profile",
                            <<Flag("anvi-profile"), Flag("-i"), Str(f_out), Flag("-o"),
                              Str(profile_name'), Flag("-c"), ContigsDb,
                              Flag("--min-contig-length"), Num("min_contig_length"),
                              Flag("--min-mean-coverage"), Num("min_mean_coverage"),
                              Flag("--num-threads"), Num("num_threads"),
                              Flag("--skip-hierarchical-clustering")>>
                            \o (IF args.skip_SNV_profiling
                                THEN <<Flag("--skip-SNV-profiling")>> ELSE <<>>)
                            \o (IF args.profile_SCVs
                                THEN <<Flag("--profile-SCVs")>> ELSE <<>>),
                            ok, "remove_sorted")
    /\ UNCHANGED <<taxvars, args, version, samples, done>>

\* rm f_out f_out.bai, and on to the next sample
RemoveSorted ==
    /\ pc = "remove_sorted"
    /\ LET f_out == ReplaceRaw(BamIn(samples[done + 1]))
       IN  \E ok \in BOOLEAN :
              /\ RunCommand("rm", <<Flag("rm"), Str(f_out), Str(f_out \o <<".bai">>)>>, ok,
                            IF done + 1 < Len(samples) THEN "init_bam" ELSE "merge")
              /\ done' = IF ok THEN done + 1 ELSE done
    /\ UNCHANGED <<taxvars, args, version, samples, profile_name>>

MergeTail ==
    <<Flag("-c"), ContigsDb, Flag("-o"), TempDir, Flag("--skip-hierarchical-clustering")>>
    \o (IF version < 6 THEN <<Flag("--skip-concoct-binning")>> ELSE <<>>)

\* a merge without the case of the single sample
MergeProfilesOnly(names, last) ==
    <<Flag("anvi-merge")>> \o [k \in DOMAIN names |-> ProfileDb(ProfileName(names[k]))]
    \o MergeTail
\* the anvi-merge command line: the one profile twice, or the profile of every sample
MergeArgv(names, last) ==
    IF Len(names) = 1
    THEN <<Flag("anvi-merge"), ProfileDb(last), ProfileDb(last)>> \o MergeTail
    ELSE <<Flag("anvi-merge")>> \o [k \in DOMAIN names |-> ProfileDb(ProfileName(names[k]))]
         \o MergeTail

\* if not samples: anvi-profile --blank-profile
BlankProfile ==
    /\ pc = "merge"
    /\ samples = <<>>
    /\ profile_name' = <<Output, "/temp">>
    /\ \E ok \in BOOLEAN :
          RunCommand("anvi-profile",
                     <<Flag("anvi-profile"), Flag("-o"), Str(profile_name'), Flag("-c"),
                       ContigsDb, Flag("--blank-profile"), Flag("-S"), Flag("Blank"),
                       Flag("--min-contig-length"), Num("min_contig_length"),
                       Flag("--num-threads"), Num("num_threads"),
                       Flag("--skip-hierarchical-clustering")>>,
                     ok, "load_bins")
    /\ UNCHANGED <<taxvars, args, version, samples, done>>

\* elif len(samples) == 1 / else: anvi-merge
Merge ==
    /\ pc = "merge"
    /\ samples # <<>>
    /\ \E ok \in BOOLEAN :
          RunCommand("anvi-merge", MergeArgv(samples, profile_name), ok, "load_bins")
    /\ UNCHANGED <<taxvars, args, version, samples, done, profile_name>>

(***************************************************************************)
(* load_bins(project, output), and the end of main()                       *)
(***************************************************************************)
BinsGlob == Str(<<Project, "/results/sqm2anvio/*anvio_bins.txt">>)
MsgBinsNotFile == "Your bins file is not a file!"
MsgNoBins == "There is no bins collection or there are more than two! Skipping..."
MsgLoaded == "Your data has been loaded"

LoadBins ==
    /\ pc = "load_bins"
    /\ UNCHANGED <<taxvars, args, version, samples, done, profile_name>>
    /\ \E found \in GlobResults :
          CASE found = "one" ->
                  \E ok \in BOOLEAN :
                     RunCommandAfter(<<Ev("check", "glob", <<BinsGlob>>, found)>>,
                                     "anvi-import-collection",
                                     <<Flag("anvi-import-collection"), BinsGlob, Flag("-c"),
                                       ContigsDb, Flag("-p"), ProfileDb(<<Output, "/temp">>),
                                       Flag("-C"), Flag("DAS"), Flag("--contigs-mode")>>,
                                     ok, "relocate")
            [] OTHER ->
                  /\ log' = Append(log, Ev("check", "glob", <<BinsGlob>>, found))
                  /\ diag' = IF found = "notfile" THEN MsgBinsNotFile ELSE MsgNoBins
                  /\ pc' = "relocate"
                  /\ UNCHANGED exitcode

Moved == <<"/PROFILE.db", "/AUXILIARY-DATA.db", "/RUNLOG.txt">>

\* shutil.move of the three files of <output>/temp to <output>; a move of a
\* file that is not there raises
Relocate ==
    /\ pc = "relocate"
    /\ \E n \in 0..Len(Moved) :
          /\ log' = log \o [k \in 1..(IF n = Len(Moved) THEN n ELSE n + 1) |->
                               Ev("shutil.move", Moved[k],
                                  <<Str(<<Output, "/temp", Moved[k]>>), Str(<<Output, Moved[k]>>)>>,
                                  IF k <= n THEN "0" ELSE "raised")]
          /\ IF n = Len(Moved)
             THEN pc' = "remove_temp" /\ UNCHANGED <<exitcode, diag>>
             ELSE Raise("FileNotFoundError")
    /\ UNCHANGED <<taxvars, args, version, samples, done, profile_name>>

\* shutil.rmtree of every entry of <output> that ends in 'temp'
RemoveTemp ==
    /\ pc = "remove_temp"
    /\ log' = Append(log, Ev("shutil.rmtree", "temp",
                             <<TempDir>> \o [k \in DOMAIN samples |-> Str(ProfileName(samples[k]))],
                             "0"))
    /\ pc' = "write_log"
    /\ UNCHANGED <<taxvars, args, version, samples, done, profile_name, exitcode, diag>>

\* anvi-load-sqm.log is written, main returns and the process ends
WriteLog ==
    /\ pc = "write_log"
    /\ log' = Append(log, Ev("write", "anvi-load-sqm.log",
                             <<Str(<<Output, "/anvi-load-sqm.log">>)>>, "0"))
    /\ diag' = MsgLoaded
    /\ exitcode' = <<0>>
    /\ pc' = "exited"
    /\ UNCHANGED <<taxvars, args, version, samples, done, profile_name>>

Versions == {5, 6}

Init ==
    /\ tax_contigs = <<>>
    /\ tax_genes = <<>>
    /\ splits_basic_info = {}
    /\ db = [o \in Outputs |-> NoRows]
    /\ tx = NoRows
    /\ split_tax = <<>>
    /\ gen_tax = <<>>
    /\ taxa_order = <<>>
    /\ outcome = [o \in Outputs |-> "none"]
    /\ run = 1
    /\ args \in [output_dot : BOOLEAN, same_dir : BOOLEAN, run_HMMS : BOOLEAN,
                 run_scg_taxonomy : BOOLEAN, skip_SNV_profiling : BOOLEAN,
                 profile_SCVs : BOOLEAN]
    /\ version \in Versions
    /\ log = <<>>
    /\ samples = <<>>
    /\ done = 0
    /\ profile_name = <<>>
    /\ exitcode = <<>>
    /\ diag = ""
    /\ pc = "start"

Next ==
    \/ CreateOutputDir
    \/ Sqm2anvioDirExists
    \/ RunSqm2anvio
    \/ CheckSqm2anvio
    \/ CopyTaxContigs
    \/ GenContigsDatabase
    \/ RunHmms
    \/ ScgHmms
    \/ ScgTaxonomy
    \/ ImportFunctions
    \/ LoadTaxonomyRead
    \/ InsertTaxonNames
    \/ InsertSplitsTaxonomy
    \/ InsertGenesTaxonomy
    \/ Commit
    \/ ListSamples
    \/ InitBam
    \/ Profile
    \/ RemoveSorted
    \/ BlankProfile
    \/ Merge
    \/ LoadBins
    \/ Relocate
    \/ RemoveTemp
    \/ WriteLog

Spec == Init /\ [][Next]_vars

(***************************************************************************)
(* What the claims read: the input files and the committed tables, stated  *)
(* on the data themselves and not through the loader's helpers.            *)
(***************************************************************************)
Finished(o) == outcome[o] # "none"
Failures == {"KeyError", "ValueError", "ProgrammingError"}

\* the data row that counts for the identifier id: the last one that starts with it
HasRow(file, id, label) ==
    \E i \in 2..Len(file) :
        /\ file[i] = <<id>> \o label
        /\ label # <<>>
        /\ \A j \in (i+1)..Len(file) : file[j][1] # id

\* the labels of the data rows of a file
RowLabels(file) == { SubSeq(file[i], 2, Len(file[i])) : i \in 2..Len(file) }
AllLabels == RowLabels(tax_contigs) \cup RowLabels(tax_genes)

\* the split name cut at its (first) '_split_' marker
CutAtMarker(s) ==
    CHOOSE p \in { SubSeq(s, 1, k) : k \in 0..Len(s) } :
        /\ \A j \in DOMAIN p : p[j] # Marker
        /\ \/ p = s
           \/ s[Len(p) + 1] = Marker

\* the label a split inherits from its parent contig
Inherits(s, label) == Len(CutAtMarker(s)) = 1 /\ HasRow(tax_contigs, CutAtMarker(s)[1], label)
InheritedLabels == { l \in AllLabels : \E s \in splits_basic_info : Inherits(s, l) }
GeneLabels == { l \in AllLabels : \E i \in 2..Len(tax_genes) : HasRow(tax_genes, tax_genes[i][1], l) }
GeneIds == { tax_genes[i][1] : i \in 2..Len(tax_genes) }

\* the ranks of a label: its fields after the superkingdom
RankTuple(label) == SubSeq(label, 2, Len(label))

Rows(o, table) == BagToSet(db[o][table])
\* the number of rows of a table that are in hit, a row counting as often as it is there
Count(o, table, hit) ==
    BagCardinality([r \in hit \cap Rows(o, table) |-> CopiesIn(r, db[o][table])])

\* the (split, rank tuple) and (gene, rank tuple) pairs that the tables associate
SplitAssoc(o) ==
    { <<r.split, t.ranks>> : <<r, t>> \in
        { x \in Rows(o, "splits_taxonomy") \X Rows(o, "taxon_names") :
            x[1].taxon_id = x[2].taxon_id } }
GeneAssoc(o) ==
    { <<r.gene_callers_id, t.ranks>> : <<r, t>> \in
        { x \in Rows(o, "genes_taxonomy") \X Rows(o, "taxon_names") :
            x[1].taxon_id = x[2].taxon_id } }

(***************************************************************************)
(* Claims about load_taxonomy: C1, C2, C3 and C9 under SpecTax, C10 under  *)
(* SpecRoundTrip.                                                          *)
(***************************************************************************)

\* no identifier has two data rows in the file
UniqueIds(file) == \A i, j \in 2..Len(file) : file[i][1] = file[j][1] => i = j

\* C1 as stated (and only for files that give every identifier one row): after
\* a successful run taxon_names holds exactly N rows, N the number of distinct
\* labels of the data rows of both files, with distinct ids.
C1_RowPerFileLabel ==
    outcome[1] = "ok" /\ UniqueIds(tax_contigs) /\ UniqueIds(tax_genes) =>
        /\ Count(1, "taxon_names", Rows(1, "taxon_names")) = Cardinality(AllLabels)
        /\ Cardinality({ r.taxon_id : r \in Rows(1, "taxon_names") }) = Cardinality(AllLabels)

\* C1 amended: after a successful run taxon_names holds exactly N rows, N the
\* number of distinct labels among those the splits of splits_basic_info
\* inherit and those of the gene mapping (the last row of an identifier
\* counts); the ids are 1..N, each used once, and every such label has its row
\* of rank columns (labels that differ in the superkingdom alone give rows with
\* equal rank columns and different ids).
C1_RowPerUsedLabel ==
    \A o \in Outputs :
        outcome[o] = "ok" =>
            LET used == InheritedLabels \cup GeneLabels
                N    == Cardinality(used)
            IN  /\ Count(o, "taxon_names", Rows(o, "taxon_names")) = N
                /\ { r.taxon_id : r \in Rows(o, "taxon_names") } = 1..N
                /\ \A i \in 1..N :
                      Count(o, "taxon_names",
                            { r \in Rows(o, "taxon_names") : r.taxon_id = i }) = 1
                /\ \A l \in AllLabels \cup { r.ranks : r \in Rows(o, "taxon_names") } :
                      Count(o, "taxon_names",
                            { r \in Rows(o, "taxon_names") : r.ranks = RankTuple(l) }) =
                              Cardinality({ u \in used : RankTuple(u) = RankTuple(l) })

\* C1's case: a successful run in which a contig's label is inherited by no
\* split, and two labels of the run have the same rank columns
C1_Witness ==
    /\ outcome[1] = "ok"
    /\ Cardinality(AllLabels) > Cardinality(InheritedLabels \cup GeneLabels)
    /\ Cardinality(InheritedLabels \cup GeneLabels) >= 3
    /\ \E a, b \in InheritedLabels \cup GeneLabels : a # b /\ RankTuple(a) = RankTuple(b)

\* C2: after a successful run every split whose parent contig is in the contig
\* mapping has exactly one splits_taxonomy row, and the taxon_id of that row is
\* the id of exactly one taxon_names row, whose rank columns are the rank tuple
\* of the label the split inherits.
C2_SplitRowJoinsLabel ==
    \A o \in Outputs :
        outcome[o] = "ok" =>
            \A s \in splits_basic_info : \A l \in AllLabels :
                Inherits(s, l) =>
                    LET OfSplit == { r \in Rows(o, "splits_taxonomy") : r.split = s }
                    IN  /\ Count(o, "splits_taxonomy", OfSplit) = 1
                        /\ \A r \in Rows(o, "splits_taxonomy") :
                              r.split = s =>
                                  LET HasId == { t \in Rows(o, "taxon_names") :
                                                   t.taxon_id = r.taxon_id }
                                  IN  /\ Count(o, "taxon_names", HasId) = 1
                                      /\ \A t \in Rows(o, "taxon_names") :
                                            t.taxon_id = r.taxon_id => t.ranks = RankTuple(l)

\* C2's case: a successful run with a split of each contig, the two contigs
\* with different labels, and a split whose name holds two markers
C2_Witness ==
    /\ outcome[1] = "ok"
    /\ splits_basic_info = SplitNames
    /\ Cardinality(InheritedLabels) = 2
    /\ Cardinality(Rows(1, "taxon_names")) >= 3

\* C3's scenario and nothing else: one data row, C1 with five ranks after the
\* superkingdom, and the split C1_split_00001
ScenarioInput ==
    /\ tax_contigs = <<Header, <<"C1">> \o L5>>
    /\ tax_genes = <<Header>>
    /\ splits_basic_info = {C1s1}

\* C3 as stated: on the scenario load_taxonomy completes and the split is
\* assigned the rank tuple (X,Y,Z,W,V).
C3_FiveRanksAssigned ==
    (ScenarioInput /\ Finished(1)) =>
        /\ outcome[1] = "ok"
        /\ <<C1s1, <<"X", "Y", "Z", "W", "V">>>> \in SplitAssoc(1)

\* C3 amended: when C1's row is 'C1 Bacteria X Y Z W V U' (six ranks after the
\* superkingdom, one for each rank column) and splits_basic_info contains
\* C1_split_00001, a load_taxonomy that completes assigns the split the rank
\* tuple (X,Y,Z,W,V,U) and no other; with the five-rank row of the scenario
\* load_taxonomy never completes (on the scenario alone it ends in sqlite3's
\* ProgrammingError at the taxon_names insert) and commits nothing.
C3_SixRanksAssigned ==
    \A o \in Outputs :
        Finished(o) /\ C1s1 \in splits_basic_info =>
            /\ HasRow(tax_contigs, "C1", L1) /\ outcome[o] = "ok" =>
                  { a[2] : a \in { x \in SplitAssoc(o) : x[1] = C1s1 } }
                      = { <<"X", "Y", "Z", "W", "V", "U">> }
            /\ HasRow(tax_contigs, "C1", L5) =>
                  /\ outcome[o] \in Failures
                  /\ db[o] = NoRows
                  /\ ScenarioInput => outcome[o] = "ProgrammingError"

\* C3's positive case: C1 with six ranks, its split assigned them
C3_Witness ==
    /\ outcome[1] = "ok"
    /\ HasRow(tax_contigs, "C1", L1)
    /\ <<C1s1, <<"X", "Y", "Z", "W", "V", "U">>>> \in SplitAssoc(1)

\* C3's scenario itself, ended in the binding error (reached as well)
C3_ScenarioFails == ScenarioInput /\ outcome[1] = "ProgrammingError"

\* C9: a split whose parent contig is absent from the contig mapping makes
\* load_taxonomy fail (KeyError, or the earlier ValueError of a malformed
\* file) with no row for any split; and the committed tables hold none of a
\* run's rows unless the run succeeded, and then all of them.
C9_FatalAndAtomic ==
    \A o \in Outputs :
        /\ Finished(o) /\ (\E s \in splits_basic_info : \A l \in AllLabels : ~Inherits(s, l)) =>
              /\ outcome[o] \in {"KeyError", "ValueError"}
              /\ Rows(o, "splits_taxonomy") = {}
        /\ outcome[o] # "ok" => db[o] = NoRows
        /\ outcome[o] = "ok" =>
              /\ Count(o, "taxon_names", Rows(o, "taxon_names")) = Cardinality(InheritedLabels \cup GeneLabels)
              /\ Count(o, "splits_taxonomy", Rows(o, "splits_taxonomy")) = Cardinality(splits_basic_info)
              /\ Count(o, "genes_taxonomy", Rows(o, "genes_taxonomy")) = Cardinality(GeneIds)

\* C9's case: a split of a contig that the contig file does not list, the
\* other split's contig listed, and the run ended in the KeyError
C9_Witness ==
    /\ outcome[1] = "KeyError"
    /\ C2s1 \in splits_basic_info /\ C1s1 \in splits_basic_info
    /\ \E l \in AllLabels : Inherits(C1s1, l)
    /\ \A l \in AllLabels : ~Inherits(C2s1, l)
    /\ db[1] = NoRows

\* a run that failed after rows were inserted, which were never committed
\* (reached as well)
C9_PartialInsert ==
    outcome[1] = "ProgrammingError" /\ tx.taxon_names # EmptyBag /\ db[1] = NoRows

\* C10: two runs on the same files and splits, each on a fresh database and
\* each with its own enumeration order, end the same way and give the same
\* (split, rank tuple) and (gene, rank tuple) associations.
C10_SameAssociations ==
    Finished(2) =>
        /\ outcome[1] = outcome[2]
        /\ SplitAssoc(1) = SplitAssoc(2)
        /\ GeneAssoc(1) = GeneAssoc(2)

\* C10's case: both runs succeeded, with different taxon ids for the same
\* labels, and splits and genes of different rank tuples
C10_Witness ==
    /\ outcome[1] = "ok" /\ outcome[2] = "ok"
    /\ db[1].taxon_names # db[2].taxon_names
    /\ Cardinality({ a[2] : a \in SplitAssoc(2) }) >= 2
    /\ Cardinality({ a[2] : a \in GeneAssoc(2) }) >= 2

(***************************************************************************)
(* Claims about the pipeline, checked under Spec.  They read the log.      *)
(***************************************************************************)
Commands(name) == { k \in DOMAIN log : log[k].kind = "run_command" /\ log[k].name = name }
HasArg(e, a) == \E n \in DOMAIN e.argv : e.argv[n] = a
ArgAfter(e, a) == e.argv[(CHOOSE n \in DOMAIN e.argv : e.argv[n] = a) + 1]

DatabaseCommands ==
    {"anvi-gen-contigs-database", "anvi-run-hmms", "anvi-run-scg-taxonomy",
     "anvi-import-functions", "anvi-init-bam", "anvi-profile", "anvi-merge",
     "anvi-import-collection"}

RequiredGlobs ==
    { <<"str", "_anvio_contigs", ".txt">>, <<"str", "_anvio_genes", ".txt">>,
      <<"str", "_anvio_functions", ".txt">>, <<"str", "_anvio_taxonomy", ".txt">>,
      <<"str", "_anvio_contig_taxonomy", ".txt">> }
IsRequiredGlob(e) == e.kind = "check" /\ e.name = "glob" /\ e.argv[1] \in RequiredGlobs
IsBamCheck(e) == e.kind = "check" /\ e.name = "os.path.isdir" /\ e.argv[1] = <<"str", "bam">>
IsBinsGlob(e) == e.kind = "check" /\ e.name = "glob" /\ e.argv[1] \notin RequiredGlobs
IsOutputCheck(e) == e.kind = "check" /\ e.name = "os.path.exists"

\* the '-RAW.bam' files of the bam directory, and what the claims expect for them
S == { samples[k] : k \in DOMAIN samples }
ExpectedProfile(f) == <<"str", "{output}", "/", f[1], "_temp">>
ExpectedProfileDb(f) == <<"str", "{output}", "/", f[1], "_temp", "/PROFILE.db">>
ExpectedTemp == <<"str", "{output}", "/temp">>
BlankProfiles == { k \in Commands("anvi-profile") : HasArg(log[k], <<"str", "--blank-profile">>) }
SampleProfiles == Commands("anvi-profile") \ BlankProfiles
MergeInputs(e) == SubSeq(e.argv, 2, (CHOOSE n \in DOMAIN e.argv : e.argv[n] = <<"str", "-c">>) - 1)

\* create_profileDB has issued its last command, and the command succeeded
ProfileDbBuilt ==
    \E k \in BlankProfiles \cup Commands("anvi-merge") : log[k].res = "0"

\* C4: with S the '-RAW.bam' files of the bam directory, once create_profileDB
\* is through: S empty, one blank anvi-profile and no anvi-init-bam, sample
\* anvi-profile or anvi-merge; S not empty, no blank profile, every sample
\* initialised and profiled exactly once, both before the one anvi-merge, whose
\* inputs are the one sample's PROFILE.db twice (|S| = 1) or the PROFILE.db of
\* every sample once (|S| >= 2); the result goes to <output>/temp.  And in no
\* state is there a blank profile with samples or an anvi-merge without them.
C4_ProfileBySampleCount ==
    LET blank    == BlankProfiles
        merges   == Commands("anvi-merge")
        inits    == Commands("anvi-init-bam")
        profiles == Commands("anvi-profile") \ blank
        files    == S
        out(k)   == ArgAfter(log[k], <<"str", "-o">>)
    IN  /\ blank # {} => files = {}
        /\ merges # {} => files # {}
        /\ (\E k \in blank \cup merges : log[k].res = "0") =>
              /\ Cardinality(files) = Len(samples)
              /\ files = {} =>
                    /\ Cardinality(blank) = 1
                    /\ profiles = {} /\ inits = {}
                    /\ merges = {}
                    /\ \A k \in blank : out(k) = ExpectedTemp
              /\ files # {} =>
                    /\ blank = {}
                    /\ Cardinality(merges) = 1
                    /\ \A m \in merges :
                          LET inputs == MergeInputs(log[m])
                          IN  /\ out(m) = ExpectedTemp
                              /\ \A f \in files :
                                    /\ Cardinality({ k \in profiles :
                                           out(k) = ExpectedProfile(f) }) = 1
                                    /\ \E k \in profiles :
                                           /\ out(k) = ExpectedProfile(f)
                                           /\ k < m /\ log[k].res = "0"
                              /\ Cardinality(inits) = Cardinality(files)
                              /\ Cardinality(profiles) = Cardinality(files)
                              /\ \A k \in inits \cup profiles : k < m
                              /\ Cardinality(files) = 1 =>
                                    \E f \in files :
                                       inputs = <<ExpectedProfileDb(f), ExpectedProfileDb(f)>>
                              /\ Cardinality(files) >= 2 =>
                                    /\ Len(inputs) = Cardinality(files)
                                    /\ { inputs[n] : n \in DOMAIN inputs }
                                           = { ExpectedProfileDb(f) : f \in files }

\* C4's case of one sample: profiled, then merged with itself
C4_Witness ==
    /\ Cardinality(S) = 1
    /\ ProfileDbBuilt
    /\ \E m \in Commands("anvi-merge") : Len(MergeInputs(log[m])) = 2
\* the other two cases (reached as well)
C4_NoSample == S = {} /\ ProfileDbBuilt
C4_Samples == Cardinality(S) >= 2 /\ ProfileDbBuilt

\* C5: when the glob for one of the five required files finds nothing, that
\* check is the last thing the process does: it has exited with code -1, no
\* database command was run before and no table has a row.
C5_MissingInputStops ==
    \A k \in DOMAIN log :
        IsRequiredGlob(log[k]) /\ log[k].res = "none" =>
            /\ k = Len(log)
            /\ pc = "exited" /\ exitcode = <<-1>>
            /\ \A j \in DOMAIN log : log[j].name \notin DatabaseCommands
            /\ db[1] = NoRows

\* C5's case: sqm2anvio.pl has just generated the directory, four of the files
\* are there and the fifth is missing
C5_Witness ==
    /\ Len(log) >= 6
    /\ \E j \in Commands("sqm2anvio.pl") : log[j].res = "0"
    /\ IsRequiredGlob(log[Len(log)]) /\ log[Len(log)].res = "none"
    /\ log[Len(log)].argv[1] = <<"str", "_anvio_contig_taxonomy", ".txt">>
    /\ pc = "exited"
\* the same with a directory that was there (reached as well)
C5_Preexisting ==
    /\ Commands("sqm2anvio.pl") = {}
    /\ log # <<>> /\ IsRequiredGlob(log[Len(log)]) /\ log[Len(log)].res = "none"

\* an external tool was invoked: through run_command, or mkdir through subprocess.call
IsInvocation(e) == e.kind \in {"run_command", "subprocess.call"}

\* C6: a child that exits non-zero is the last thing the process does; the
\* process has exited with a non-zero code and printed the message that names
\* the command.
C6_FailureStopsWithMessage ==
    \A k \in DOMAIN log :
        IsInvocation(log[k]) /\ log[k].res = "nonzero" =>
            /\ k = Len(log)
            /\ pc = "exited"
            /\ exitcode # <<>> /\ exitcode # <<0>>
            /\ diag = MsgCommand

\* where the code departs from C6: a failed command with a number among its
\* arguments ends the process in a TypeError, the message never printed
C6_Witness ==
    /\ log # <<>>
    /\ log[Len(log)].kind = "run_command" /\ log[Len(log)].res = "nonzero"
    /\ JoinFails(log[Len(log)].argv)
    /\ pc = "exited" /\ exitcode = <<1>> /\ diag = "TypeError"

PreconditionFailed ==
    \E k \in DOMAIN log :
        \/ IsOutputCheck(log[k]) /\ log[k].res = "yes"
        \/ IsRequiredGlob(log[k]) /\ log[k].res \in {"none", "many", "notfile"}
        \/ IsBamCheck(log[k]) /\ log[k].res = "no"
        \/ IsBinsGlob(log[k]) /\ log[k].res = "notfile"
ChildFailed == \E k \in DOMAIN log : IsInvocation(log[k]) /\ log[k].res = "nonzero"
Completed == \E k \in DOMAIN log : log[k].kind = "write"

\* C7: the exit code is -1 after a detected precondition failure and after a
\* failed child process, and it is 0 exactly when the pipeline ran to its end.
C7_ExitCodes ==
    pc = "exited" =>
        /\ PreconditionFailed \/ ChildFailed => exitcode = <<-1>>
        /\ exitcode = <<0>> <=> Completed

\* where the code departs from C7: a bins file that is not a file, and the
\* pipeline running to its end with exit code 0
C7_Witness ==
    /\ \E k \in DOMAIN log : IsBinsGlob(log[k]) /\ log[k].res = "notfile"
    /\ Completed /\ exitcode = <<0>>

Descriptive == {MsgPrevious, MsgMissing, MsgSeveral, MsgNoBam, MsgBinsNotFile, MsgNoBins}
IsFileCheck(e) == IsOutputCheck(e) \/ IsRequiredGlob(e) \/ IsBamCheck(e) \/ IsBinsGlob(e)
Violated(e) ==
    \/ IsOutputCheck(e) /\ e.res = "yes"
    \/ IsRequiredGlob(e) /\ e.res # "one"
    \/ IsBamCheck(e) /\ e.res = "no"
    \/ IsBinsGlob(e) /\ e.res = "notfile"
\* creating the output directory, creating or mutating a database, copying,
\* moving or removing files
IsAction(e) ==
    \/ e.kind \in {"subprocess.call", "shutil.move", "shutil.rmtree", "write"}
    \/ e.kind = "run_command" /\ e.name # "sqm2anvio.pl"

\* C8 as stated: every file-existence check comes before every such action,
\* and a violated check is the last thing the process does, which has exited
\* after a descriptive message.
C8_ChecksBeforeActions ==
    /\ \A j, k \in DOMAIN log : IsAction(log[j]) /\ IsFileCheck(log[k]) => k < j
    /\ \A k \in DOMAIN log :
          Violated(log[k]) => k = Len(log) /\ pc = "exited" /\ diag \in Descriptive

\* where the code departs from C8: the output directory was created, and then
\* a required input turned out to be missing
C8_Witness ==
    /\ Len(log) >= 4
    /\ log[2].name = "mkdir" /\ log[2].res = "0"
    /\ IsRequiredGlob(log[Len(log)]) /\ log[Len(log)].res = "none"
    /\ pc = "exited" /\ diag = MsgMissing

(***************************************************************************)
(* The order of the stages, read off the log (C11, under Spec).            *)
(***************************************************************************)
\* the stage an event belongs to; -1 for what the claim does not list (the
\* output directory, the look for the sqm2anvio directory, cp)
Stage(e) ==
    CASE e.kind = "run_command" ->
            CASE e.name = "sqm2anvio.pl" -> 0
              [] e.name = "anvi-gen-contigs-database" -> 2
              [] e.name = "anvi-run-hmms" -> 3
              [] e.name = "anvi-run-scg-taxonomy" -> 4
              [] e.name = "anvi-import-functions" -> 5
              [] e.name \in {"anvi-init-bam", "rm"} -> 7
              [] e.name = "anvi-profile" ->
                    IF HasArg(e, <<"str", "--blank-profile">>) THEN 8 ELSE 7
              [] e.name = "anvi-merge" -> 8
              [] e.name = "anvi-import-collection" -> 9
              [] OTHER -> -1
      [] e.kind = "check" ->
            CASE IsRequiredGlob(e) \/ IsBamCheck(e) -> 1
              [] IsBinsGlob(e) -> 9
              [] OTHER -> -1
      [] e.kind = "shutil.move" -> 10
      [] e.kind = "shutil.rmtree" -> 11
      [] e.kind = "write" -> 12
      [] OTHER -> -1

\* the events of the stages, each with its stage, in the order in which they happened
Staged ==
    LET IsStage(x) == x.stage >= 0
    IN  SelectSeq([k \in DOMAIN log |-> [event |-> log[k], stage |-> Stage(log[k])]], IsStage)

\* the stage completed successfully (the look for a bins file is done whatever it finds)
Succeeded(e) == e.res \in {"0", "one", "yes"} \/ IsBinsGlob(e)

\* load_taxonomy is running
InLoadTaxonomy ==
    pc \in {"load_taxonomy", "insert_taxon_names", "insert_splits_taxonomy",
            "insert_genes_taxonomy", "commit"}

\* y may be the stage event that comes right after the stage event x
MayFollow(x, y) ==
    LET a  == x.event
        b  == y.event
        sa == x.stage
        sb == y.stage
    IN  /\ Succeeded(a)
        /\ sa <= sb
        /\ sa = sb => sa \in {1, 7, 9, 10}
        /\ sb = 1 => sa \in {0, 1} /\ ~IsBamCheck(a)
        /\ sb = 2 => IsBamCheck(a)
        /\ sb = 3 => sa = 2
        /\ sb = 4 => sa = 3
        /\ sb = 5 => sa \in {2, 3, 4}
        /\ sb \in {7, 8} /\ sa < 7 => sa = 5 /\ outcome[1] = "ok"
        /\ sb = 7 =>
              CASE b.name = "anvi-init-bam" -> sa = 5 \/ a.name = "rm"
                [] b.name = "anvi-profile" -> a.name = "anvi-init-bam"
                [] OTHER -> sa = 7 /\ a.name = "anvi-profile"
        /\ sa = 7 /\ sb > 7 => a.name = "rm"
        /\ sb = 9 => sa = 8 \/ (IsBinsGlob(a) /\ ~IsBinsGlob(b))
        /\ sb = 10 => sa \in {8, 9, 10}
        /\ sb = 11 => sa = 10 /\ a.name = Moved[Len(Moved)]
        /\ sb = 12 => sa = 11

\* C11: the stage events of every run come in the one fixed order -- the
\* input check (after sqm2anvio.pl, when it ran), anvi-gen-contigs-database,
\* at most one anvi-run-hmms, anvi-run-scg-taxonomy, anvi-import-functions,
\* load_taxonomy, for each sample anvi-init-bam, anvi-profile, rm, then the
\* blank profile or anvi-merge, the bins collection, the three moves, the
\* removal of the temp directories, the log file -- each after the one before
\* it succeeded; anvi-run-scg-taxonomy comes only after exactly one successful
\* anvi-run-hmms; load_taxonomy runs right after a successful
\* anvi-import-functions and nothing of create_profileDB is run unless it
\* succeeded; the log file is written only after every stage succeeded.
C11_StagesInOrder ==
    LET staged == Staged
        hmms   == Commands("anvi-run-hmms")
    IN  /\ staged # <<>> => staged[1].stage \in {0, 1}
        /\ \A i \in 1..(Len(staged) - 1) : MayFollow(staged[i], staged[i + 1])
        /\ Cardinality(hmms) <= 1
        /\ \A k \in Commands("anvi-run-scg-taxonomy") :
              /\ Cardinality(hmms) = 1
              /\ \A j \in hmms : j < k /\ log[j].res = "0"
        /\ InLoadTaxonomy =>
              /\ log # <<>>
              /\ Stage(log[Len(log)]) = 5 /\ log[Len(log)].res = "0"
        /\ outcome[1] # "none" => \E k \in Commands("anvi-import-functions") : log[k].res = "0"
        /\ Completed =>
              /\ outcome[1] = "ok"
              /\ \A i \in DOMAIN staged : Succeeded(staged[i].event)
              /\ staged[Len(staged)].stage = 12
              /\ { staged[i].stage : i \in DOMAIN staged } \ {0, 3, 4, 7}
                     \in { {1, 2, 5, 8, 9, 10, 11, 12} }

\* C11's case: a run that went through every stage -- sqm2anvio.pl, the HMMs
\* for anvi-run-scg-taxonomy, two samples and their merge, a bins collection --
\* and wrote its log file
C11_Witness ==
    /\ Completed
    /\ Commands("sqm2anvio.pl") # {}
    /\ Commands("anvi-run-scg-taxonomy") # {}
    /\ Cardinality(Commands("anvi-init-bam")) >= 2
    /\ Commands("anvi-merge") # {}
    /\ Commands("anvi-import-collection") # {}

====
